---- MODULE Spec2Model ----
(***************************************************************************)
(* Photo slideshow: the optimizer (src/slideshow.py), its independent      *)
(* verifier (src/project/VerificationSolution.py) and the solver           *)
(* termination callback (src/Custom_Termination_Criteria.py).              *)
(*                                                                         *)
(* Python lists are sequences (1-based here, 0-based in the source: the    *)
(* photo with id i is photos[i + 1], and slide number i of the source is   *)
(* slides[i + 1]).  Text is a sequence of one-character strings.           *)
(***************************************************************************)
EXTENDS Integers, Sequences, FiniteSets, TLC

VARIABLES
    pc,                 \* where the running program is
    photos,             \* the catalog in memory (List[Photo])
    slides,             \* the sequence handed to, or read by, SolutionChecker
    verdict,            \* what is_valid_solution returned
    total,              \* what compute_score returned
    optimizer,          \* the PhotoSlideshowOptimizer object
    solver,             \* the Gurobi model after m.optimize()
    result,             \* what PhotoSlideshowOptimizer.optimize returned
    file,               \* slideshow.sol
    printed,            \* what slideshow.main printed
    text,               \* the lines of the catalog file
    loaded,             \* what read_input and read_input_file made of it
    cbdata,             \* the CallbackData object
    now,                \* time.time()
    call,               \* the last invocation of callback
    window_start        \* the time of the last invocation that recorded a gap

checkerVars == <<slides, verdict, total>>
optimizerVars == <<optimizer, solver, result, file, printed>>

loaderVars == <<text, loaded>>
callbackVars == <<cbdata, now, call, window_start>>

vars == <<pc, photos, checkerVars, optimizerVars, loaderVars, callbackVars>>

(***************************************************************************)
(* Bounds of the model.                                                    *)
(***************************************************************************)
MaxPhotos == 3          \* photos in a catalog
MaxRecords == 2         \* records in a catalog file, and the count its first line declares
MaxTagTokens == 2       \* tag tokens on a record, and the tag count it declares
MaxClock == 110         \* seconds of solving
MaxIds == 3             \* size of a sequence given to the checker: ids written, an empty slide counting one

(***************************************************************************)
(* Program constants.                                                      *)
(***************************************************************************)
PairSize == 2           \* a slide holds 1 or 2 photos: len(slide) not in [1, 2]

time_from_best == 50             \* seconds
EpsilonInverse == 10000          \* 1 / epsilon_to_compare_gap, which is 1e-4
Infinity == 1000000              \* GRB.INFINITY (1e100): above every value drawn here

NoIndex == 0 - 1        \* a message that names no slide, or no photo

Tags == {"a", "b", "c"}
TagPool == {{"a", "b"}, {"b", "c"}, {"c", "d"}}

Min2(a, b) == IF a <= b THEN a ELSE b

(***************************************************************************)
(* Photo, and the catalogs the runs start from: ids are 0..n-1 in input    *)
(* order, as both loaders assign them.                                     *)
(***************************************************************************)
Photo(id, is_horizontal, tags) ==
    [id |-> id, is_horizontal |-> is_horizontal, tags |-> tags]

CatalogsOfLen(n, orientations, tagsets) ==
    { [k \in 1..n |-> Photo(k - 1, f[k][1], f[k][2])] :
        f \in [1..n -> orientations \X tagsets] }

\* SolutionChecker.__init__: self.photos maps id -> photo; the ids it knows.
KnownIds(self) == { self[k].id : k \in 1..Len(self) }

PhotoOf(self, photo_id) == self[photo_id + 1]

(***************************************************************************)
(* The transition score, as each file computes it.                         *)
(***************************************************************************)
get_transition_score_asym(tags1, tags2) ==
    Min2(Cardinality(tags1 \cap tags2), Cardinality(tags1 \ tags2))

get_transition_score(tags1, tags2) ==
    LET common_tags == Cardinality(tags1 \cap tags2)
        tags_only_in_1 == Cardinality(tags1 \ tags2)
        tags_only_in_2 == Cardinality(tags2 \ tags1)
    IN  Min2(common_tags, Min2(tags_only_in_1, tags_only_in_2))

compute_transition_score(tags1, tags2) ==
    LET common_tags == Cardinality(tags1 \cap tags2)
        unique_tags_1 == Cardinality(tags1 \ tags2)
        unique_tags_2 == Cardinality(tags2 \ tags1)
    IN  Min2(common_tags, Min2(unique_tags_1, unique_tags_2))

(***************************************************************************)
(* SolutionChecker.is_valid_solution.  A verdict is the returned pair      *)
(* (bool, message); the message is kept as its template (reason) and the   *)
(* values formatted into it: the slide index i, and the photo id or the    *)
(* slide's length.                                                         *)
(***************************************************************************)
Verdict(ok, reason, slide, detail) ==
    [ok |-> ok, reason |-> reason, slide |-> slide, detail |-> detail]

Valid == Verdict(TRUE, "Solution valide.", NoIndex, NoIndex)

\* enumerate(slides): the index of the k-th slide
enumerate_index_from_one(k) == k

enumerate_index(k) == k - 1

\* lines 55-60: the loop over a slide's photo ids
RECURSIVE member_loop(_, _, _, _)
member_loop(self, slide, k, used_photos) ==
    IF k > Len(slide)
    THEN [verdict |-> Valid, used |-> used_photos]
    ELSE IF slide[k] \in used_photos
    THEN [verdict |-> Verdict(FALSE, "Photo est utilisee plusieurs fois.", NoIndex, slide[k]),
          used |-> used_photos]
    ELSE IF slide[k] \notin KnownIds(self)
    THEN [verdict |-> Verdict(FALSE, "ID de photo invalide.", NoIndex, slide[k]),
          used |-> used_photos]
    ELSE member_loop(self, slide, k + 1, used_photos \cup {slide[k]})

\* a two-photo slide checked on its first photo only
pair_has_horizontal_first_only(self, slide) ==
    PhotoOf(self, slide[1]).is_horizontal

\* line 66
pair_has_horizontal(self, slide) ==
    PhotoOf(self, slide[1]).is_horizontal \/ PhotoOf(self, slide[2]).is_horizontal

\* lines 51-67: the loop over the slides
RECURSIVE slide_loop(_, _, _, _)
slide_loop(self, sl, k, used_photos) ==
    IF k > Len(sl) THEN Valid
    ELSE
    LET slide == sl[k]
        i == enumerate_index(k)
    IN  IF Len(slide) \notin 1..PairSize
        THEN Verdict(FALSE, "Slide a un nombre invalide de photos.", i, Len(slide))
        ELSE
        LET members == member_loop(self, slide, 1, used_photos)
        IN  IF ~members.verdict.ok THEN members.verdict
            ELSE IF Len(slide) = 1 /\ ~PhotoOf(self, slide[1]).is_horizontal
            THEN Verdict(FALSE, "Slide contient une seule photo verticale.", i, NoIndex)
            ELSE IF Len(slide) = 2 /\ pair_has_horizontal(self, slide)
            THEN Verdict(FALSE, "Slide contient une photo horizontale dans une paire verticale.",
                         i, NoIndex)
            ELSE slide_loop(self, sl, k + 1, members.used)

is_valid_solution(self, sl) == slide_loop(self, sl, 1, {})

(***************************************************************************)
(* SolutionChecker.get_slide_tags and compute_score.                       *)
(***************************************************************************)
get_slide_tags(self, slide) ==
    UNION { PhotoOf(self, slide[k]).tags : k \in 1..Len(slide) }

RECURSIVE score_loop(_, _, _, _, _)
score_loop(self, sl, k, previous_tags, total_score) ==
    IF k > Len(sl) THEN total_score
    ELSE
    LET current_tags == get_slide_tags(self, sl[k])
    IN  score_loop(self, sl, k + 1, current_tags,
                   total_score + compute_transition_score(previous_tags, current_tags))

\* the loop stopped one slide early: range(1, len(slides) - 1)
compute_score_short(self, sl) ==
    IF sl = <<>> THEN 0
    ELSE score_loop(self, SubSeq(sl, 1, Len(sl) - 1), 2, get_slide_tags(self, sl[1]), 0)

compute_score(self, sl) ==
    IF sl = <<>> THEN 0
    ELSE score_loop(self, sl, 2, get_slide_tags(self, sl[1]), 0)

(***************************************************************************)
(* PhotoSlideshowOptimizer.__init__.  A slide unit is keyed <<i>> for the  *)
(* horizontal photo i (the source's key i) and <<i, j>> for the vertical   *)
(* pair (i, j); transition_scores is the dict, a function on its keys.     *)
(***************************************************************************)
IdsWhere(ps, horizontal) ==
    LET sel == SelectSeq(ps, LAMBDA p : p.is_horizontal = horizontal)
    IN  [k \in 1..Len(sel) |-> sel[k].id]

\* itertools.combinations(v, 2), in its order
RECURSIVE combinations(_)
combinations(v) ==
    IF Len(v) < 2 THEN <<>>
    ELSE [k \in 1..(Len(v) - 1) |-> <<v[1], v[k + 1]>>] \o combinations(Tail(v))

Range(f) == { f[k] : k \in DOMAIN f }

\* lines 51-73: the three loops that fill transition_scores
transition_table(ps, horizontal_photos, vertical_pairs, vertical_pair_tags) ==
    LET hh == [key \in { <<<<i>>, <<j>>>> : i, j \in Range(horizontal_photos) }
                        \ { <<<<i>>, <<i>>>> : i \in Range(horizontal_photos) } |->
                 get_transition_score(PhotoOf(ps, key[1][1]).tags, PhotoOf(ps, key[2][1]).tags)]
        hp == [key \in { <<<<i>>, pair>> : i \in Range(horizontal_photos),
                                           pair \in Range(vertical_pairs) } |->
                 get_transition_score(PhotoOf(ps, key[1][1]).tags, vertical_pair_tags[key[2]])]
        ph == [key \in { <<pair, <<i>>>> : i \in Range(horizontal_photos),
                                           pair \in Range(vertical_pairs) } |->
                 get_transition_score(PhotoOf(ps, key[2][1]).tags, vertical_pair_tags[key[1]])]
        pp == [key \in { <<pair1, pair2>> : pair1, pair2 \in Range(vertical_pairs) }
                        \ { <<pair, pair>> : pair \in Range(vertical_pairs) } |->
                 get_transition_score(vertical_pair_tags[key[1]], vertical_pair_tags[key[2]])]
    IN  pp @@ ph @@ hp @@ hh

PhotoSlideshowOptimizer(ps) ==
    LET horizontal_photos == IdsWhere(ps, TRUE)
        vertical_photos == IdsWhere(ps, FALSE)
        vertical_pairs == combinations(vertical_photos)
        vertical_pair_tags ==
            [pair \in Range(vertical_pairs) |->
                PhotoOf(ps, pair[1]).tags \cup PhotoOf(ps, pair[2]).tags]
    IN  [n_photos |-> Len(ps),
         horizontal_photos |-> horizontal_photos,
         vertical_photos |-> vertical_photos,
         vertical_pairs |-> vertical_pairs,
         vertical_pair_tags |-> vertical_pair_tags,
         transition_scores |->
            transition_table(ps, horizontal_photos, vertical_pairs, vertical_pair_tags)]

NoOptimizer == [n_photos |-> 0]
NoSolver == [status |-> "LOADED"]
NoResult == [outcome |-> "pending"]
Absent == [exists |-> FALSE, lines |-> <<>>]

NotPrinted == [message |-> "", score |-> NoIndex]

OptimizerIdle ==
    /\ optimizer = NoOptimizer
    /\ solver = NoSolver
    /\ result = NoResult
    /\ file = Absent
    /\ printed = NotPrinted

NotLoaded == [outcome |-> "pending", photos |-> <<>>]

LoaderIdle ==
    /\ text = <<>>
    /\ loaded = [optimizer |-> NotLoaded, checker |-> NotLoaded]

\* CallbackData.__init__; a gap is the fraction num / den
CallbackData ==
    [last_gap_change_time |-> 0 - Infinity, last_gap |-> [num |-> Infinity, den |-> 1]]

NoCall ==
    [where |-> "none", sol_count |-> 0, gap |-> [num |-> Infinity, den |-> 1], time |-> 0,
     terminated |-> FALSE, first |-> FALSE, significant |-> FALSE, seen |-> FALSE,
     reset_seen |-> FALSE]

CallbackIdle ==
    /\ cbdata = CallbackData
    /\ now = 0
    /\ call = NoCall
    /\ window_start = 0

(***************************************************************************)
(* Specification of the optimizer's construction: any catalog.             *)
(***************************************************************************)
InitTable ==
    /\ pc = "start"
    /\ \E n \in 0..MaxPhotos : photos \in CatalogsOfLen(n, BOOLEAN, SUBSET Tags)
    /\ slides = <<>>
    /\ verdict = Valid
    /\ total = 0
    /\ OptimizerIdle
    /\ LoaderIdle
    /\ CallbackIdle

Construct ==
    /\ pc = "start"
    /\ optimizer' = PhotoSlideshowOptimizer(photos)
    /\ pc' = "constructed"
    /\ UNCHANGED <<photos, checkerVars, solver, result, file, printed, loaderVars, callbackVars>>

NextTable == Construct

SpecTable == InitTable /\ [][NextTable]_vars

(***************************************************************************)
(* Text: str(), " ".join(), str.split(), int(), and the lines of a file.   *)
(***************************************************************************)
Digits == <<"0", "1", "2", "3", "4", "5", "6", "7", "8", "9">>

IsDigit(c) == \E d \in 1..Len(Digits) : Digits[d] = c

DigitValue(c) == (CHOOSE d \in 1..Len(Digits) : Digits[d] = c) - 1

\* str(n) of a non-negative int
RECURSIVE str(_)
str(n) ==
    IF n < Len(Digits) THEN <<Digits[n + 1]>>
    ELSE str(n \div Len(Digits)) \o <<Digits[(n % Len(Digits)) + 1]>>

\* sep.join(tokens)
RECURSIVE join(_, _)
join(sep, tokens) ==
    IF tokens = <<>> THEN <<>>
    ELSE IF Len(tokens) = 1 THEN tokens[1]
    ELSE tokens[1] \o sep \o join(sep, Tail(tokens))

\* line.strip().split(): the maximal runs of non-blank characters
RECURSIVE split(_)
split(line) ==
    IF line = <<>> THEN <<>>
    ELSE IF line[1] = " " THEN split(Tail(line))
    ELSE LET n == CHOOSE n \in 1..Len(line) :
                    /\ \A k \in 1..n : line[k] # " "
                    /\ n = Len(line) \/ line[n + 1] = " "
         IN  <<SubSeq(line, 1, n)>> \o split(SubSeq(line, n + 1, Len(line)))

RECURSIVE digits_value(_)
digits_value(token) ==
    IF token = <<>> THEN 0
    ELSE digits_value(SubSeq(token, 1, Len(token) - 1)) * Len(Digits)
         + DigitValue(token[Len(token)])

\* int(token): ok and the value, or a ValueError
int(token) ==
    IF token # <<>> /\ \A k \in 1..Len(token) : IsDigit(token[k])
    THEN [ok |-> TRUE, value |-> digits_value(token)]
    ELSE [ok |-> FALSE, value |-> 0]

\* int(line) of a whole line: blanks around the number are accepted
int_of_line(line) ==
    IF Len(split(line)) = 1 THEN int(split(line)[1]) ELSE [ok |-> FALSE, value |-> 0]

\* f.readline() for the k-th line: "" at the end of the file
readline(lines, k) == IF k <= Len(lines) THEN lines[k] ELSE <<>>

(***************************************************************************)
(* PhotoSlideshowOptimizer.optimize.  The decision variables x[i, p] are   *)
(* kept as the set X of keys <<unit, p>> whose value is 1.  The solver is  *)
(* Gurobi: any outcome it can end with is possible.                        *)
(***************************************************************************)
TimeLimits == {0, 120}

\* list(self.horizontal_photos) + list(self.vertical_pairs)
UnitList(opt) ==
    [k \in 1..Len(opt.horizontal_photos) |-> <<opt.horizontal_photos[k]>>]
    \o opt.vertical_pairs

PositionsOf(opt) == 0..(opt.n_photos - 1)

XKeys(opt) == Range(UnitList(opt)) \X PositionsOf(opt)

\* lines 87-104: the constraints of the model
Constraints(opt, X) ==
    /\ \A p \in PositionsOf(opt) :
          Cardinality({ u \in Range(UnitList(opt)) : <<u, p>> \in X }) <= 1
    /\ \A i \in 0..(opt.n_photos - 1) :
          IF i \in Range(opt.horizontal_photos)
          THEN Cardinality({ p \in PositionsOf(opt) : <<<<i>>, p>> \in X }) <= 1
          ELSE Cardinality({ key \in X :
                               /\ key[1] \in Range(opt.vertical_pairs)
                               /\ i \in Range(key[1]) }) <= 1

\* dict.get(key, default)
Get(d, key, default) == IF key \in DOMAIN d THEN d[key] ELSE default

RECURSIVE SumFn(_, _)
SumFn(f, S) ==
    IF S = {} THEN 0
    ELSE LET e == CHOOSE e \in S : TRUE IN f[e] + SumFn(f, S \ {e})

\* lines 107-113: the objective
Objective(opt, X) ==
    LET terms == { t \in (0..(opt.n_photos - 2)) \X Range(UnitList(opt)) \X Range(UnitList(opt)) :
                     /\ t[2] # t[3]
                     /\ <<t[2], t[1]>> \in X
                     /\ <<t[3], t[1] + 1>> \in X }
    IN  SumFn([t \in terms |-> Get(opt.transition_scores, <<t[2], t[3]>>, 0)], terms)

FeasibleSolutions(opt) == { X \in SUBSET XKeys(opt) : Constraints(opt, X) }

\* lines 124-131: the slides read off the solution, position by position
RECURSIVE extract(_, _, _)
extract(opt, X, p) ==
    IF p >= opt.n_photos THEN <<>>
    ELSE SelectSeq(UnitList(opt), LAMBDA u : <<u, p>> \in X) \o extract(opt, X, p + 1)

\* lines 122-134: reading .X or objVal of a model without a solution raises
optimize_return(opt, m) ==
    IF m.status = "OPTIMAL" \/ m.status = "TIME_LIMIT"
    THEN IF m.sol_count = 0
         THEN [outcome |-> "raised", solution |-> <<>>, score |-> 0]
         ELSE [outcome |-> "sequence", solution |-> extract(opt, m.x, 0), score |-> m.objVal]
    ELSE [outcome |-> "None", solution |-> <<>>, score |-> 0]

\* slideshow.main, lines 145-148
write_solution(solution) ==
    [exists |-> TRUE,
     lines |-> <<str(Len(solution))>> \o
               [k \in 1..Len(solution) |->
                   join(<<" ">>, [m \in 1..Len(solution[k]) |-> str(solution[k][m])])]]

\* SolutionChecker.read_solution_file
read_solution_file(f) ==
    IF ~f.exists THEN [outcome |-> "FileNotFoundError", slides |-> <<>>]
    ELSE
    LET n_slides == int_of_line(readline(f.lines, 1))
        tokens == [k \in 1..n_slides.value |-> split(readline(f.lines, k + 1))]
    IN  IF ~n_slides.ok THEN [outcome |-> "ValueError", slides |-> <<>>]
        ELSE IF \E k \in 1..n_slides.value :
                    \/ Len(tokens[k]) \notin {1, 2}
                    \/ \E m \in 1..Len(tokens[k]) : ~int(tokens[k][m]).ok
        THEN [outcome |-> "ValueError", slides |-> <<>>]
        ELSE [outcome |-> "ok",
              slides |-> [k \in 1..n_slides.value |->
                            [m \in 1..Len(tokens[k]) |-> int(tokens[k][m]).value]]]

(***************************************************************************)
(* Specification of a run: slideshow.main on any catalog, then the         *)
(* verifier's main on the same catalog and the file the run left.          *)
(***************************************************************************)
InitRun ==
    /\ pc = "start"
    /\ \E n \in 0..MaxPhotos : photos \in CatalogsOfLen(n, BOOLEAN, TagPool)
    /\ slides = <<>>
    /\ verdict = Valid
    /\ total = 0
    /\ OptimizerIdle
    /\ LoaderIdle
    /\ CallbackIdle

\* the largest objective value over the feasible solutions
BestObjective(opt, feasible) ==
    LET values == { Objective(opt, Y) : Y \in feasible }
    IN  CHOOSE v \in values : \A w \in values : w <= v

Optimize ==
    /\ pc = "constructed"
    /\ \E feasible \in {FeasibleSolutions(optimizer)} :
       \E best \in {BestObjective(optimizer, feasible)} :
       \E time_limit \in TimeLimits, status \in {"OPTIMAL", "TIME_LIMIT", "INTERRUPTED"},
          sol_count \in {0, 1} :
       \E X \in feasible :
       \E objVal \in {Objective(optimizer, X)} :
            /\ status = "OPTIMAL" => sol_count = 1 /\ objVal = best
            /\ sol_count = 0 => X = {}
            /\ solver' = [time_limit |-> time_limit, status |-> status,
                          sol_count |-> sol_count, x |-> X, objVal |-> objVal]
            /\ result' = optimize_return(optimizer, solver')
    /\ pc' = "optimized"
    /\ UNCHANGED <<photos, checkerVars, optimizer, file, printed, loaderVars, callbackVars>>

MainReport ==
    /\ pc = "optimized"
    /\ IF result.outcome = "raised"
       THEN /\ pc' = "crashed"
            /\ UNCHANGED <<file, printed>>
       ELSE IF result.outcome = "sequence" /\ result.solution # <<>>
       THEN /\ file' = write_solution(result.solution)
            /\ printed' = [message |-> "Solution trouvee avec un score de :",
                           score |-> result.score]
            /\ pc' = "main_done"
       ELSE /\ printed' = [message |-> "Aucune solution trouvee", score |-> NoIndex]
            /\ pc' = "main_done"
            /\ UNCHANGED file
    /\ UNCHANGED <<photos, checkerVars, optimizer, solver, result, loaderVars, callbackVars>>

Verify ==
    /\ pc = "main_done"
    /\ LET read == read_solution_file(file)
       IN  IF read.outcome # "ok"
           THEN /\ pc' = "read_failed"
                /\ UNCHANGED checkerVars
           ELSE /\ slides' = read.slides
                /\ verdict' = is_valid_solution(photos, read.slides)
                /\ total' = IF verdict'.ok THEN compute_score(photos, read.slides) ELSE total
                /\ pc' = "verified"
    /\ UNCHANGED <<photos, optimizerVars, loaderVars, callbackVars>>

NextRun == Construct \/ Optimize \/ MainReport \/ Verify

SpecRun == InitRun /\ [][NextRun]_vars

(***************************************************************************)
(* The two catalog loaders: read_input of slideshow.py and read_input_file *)
(* of VerificationSolution.py.                                             *)
(***************************************************************************)
LoadError(kind) == [outcome |-> kind, photos |-> <<>>]

\* line[2:2 + n_tags] and line[2:] as sets: a slice stops at the line's end
SliceSet(line, from, to) ==
    { line[k] : k \in { j \in 1..Len(line) : from <= j /\ j <= to } }

\* slideshow.read_input
read_input(lines) ==
    LET n == int_of_line(readline(lines, 1))
        records == [k \in 1..n.value |-> split(readline(lines, k + 1))]
        bad == { k \in 1..n.value : Len(records[k]) < 2 \/ ~int(records[k][2]).ok }
    IN  IF ~n.ok THEN LoadError("ValueError")
        ELSE IF bad # {}
        THEN LET k == CHOOSE k \in bad : \A j \in bad : k <= j
             IN  IF Len(records[k]) < 2 THEN LoadError("IndexError")
                 ELSE LoadError("ValueError")
        ELSE [outcome |-> "ok",
              photos |-> [k \in 1..n.value |->
                            Photo(k - 1, records[k][1] = <<"H">>,
                                  SliceSet(records[k], 3, 2 + int(records[k][2]).value))]]

\* SolutionChecker.read_input_file
read_input_file(lines) ==
    LET n == int_of_line(readline(lines, 1))
        records == [k \in 1..n.value |-> split(readline(lines, k + 1))]
    IN  IF ~n.ok THEN LoadError("ValueError")
        ELSE IF \E k \in 1..n.value : Len(records[k]) < 1 THEN LoadError("IndexError")
        ELSE [outcome |-> "ok",
              photos |-> [k \in 1..n.value |->
                            Photo(k - 1, records[k][1] = <<"H">>,
                                  SliceSet(records[k], 3, Len(records[k])))]]

(***************************************************************************)
(* Specification of the loaders: a catalog file of a count line and        *)
(* records "orientation count tag ...", well formed or not.                *)
(***************************************************************************)
OrientationTokens == {<<"H">>, <<"V">>, <<"X">>}
TagTokens == {<<"a">>, <<"b">>}

RecordLines ==
    { join(<<" ">>, <<o, str(c)>> \o t) :
        o \in OrientationTokens,
        c \in 0..MaxTagTokens,
        t \in UNION { [1..m -> TagTokens] : m \in 0..MaxTagTokens } }

InitLoad ==
    /\ pc = "start"
    /\ photos = <<>>
    /\ slides = <<>>
    /\ verdict = Valid
    /\ total = 0
    /\ OptimizerIdle
    /\ \E declared \in 0..MaxRecords, m \in 0..MaxRecords :
          \E records \in [1..m -> RecordLines] : text = <<str(declared)>> \o records
    /\ loaded = [optimizer |-> NotLoaded, checker |-> NotLoaded]
    /\ CallbackIdle

ReadInput ==
    /\ pc = "start"
    /\ loaded.optimizer.outcome = "pending"
    /\ loaded' = [loaded EXCEPT !.optimizer = read_input(text)]
    /\ UNCHANGED <<pc, photos, checkerVars, optimizerVars, text, callbackVars>>

ReadInputFile ==
    /\ pc = "start"
    /\ loaded.checker.outcome = "pending"
    /\ loaded' = [loaded EXCEPT !.checker = read_input_file(text)]
    /\ UNCHANGED <<pc, photos, checkerVars, optimizerVars, text, callbackVars>>

NextLoad == ReadInput \/ ReadInputFile

SpecLoad == InitLoad /\ [][NextLoad]_vars

(***************************************************************************)
(* The termination callback.  Times are whole seconds; a gap is kept as    *)
(* the exact fraction |best_obj - best_bound| / |best_obj|.                *)
(***************************************************************************)
Abs(v) == IF v < 0 THEN 0 - v ELSE v

\* line 33; the objective values drawn are non-zero integers, for which
\* max(abs(best_obj), 1e-10) is abs(best_obj)
Gap(best_obj, best_bound) ==
    [num |-> Abs(best_obj - best_bound), den |-> Abs(best_obj)]

\* line 45: abs(cbdata.last_gap - current_gap) > epsilon_to_compare_gap
gap_changed(last_gap, current_gap) ==
    EpsilonInverse * Abs(last_gap.num * current_gap.den - current_gap.num * last_gap.den)
        > last_gap.den * current_gap.den

Returned(cb) == [cbdata |-> cb, terminate |-> FALSE]

\* the time test made before the gap test
callback_time_test_first(cb, where, sol_count, best_obj, best_bound, current_time) ==
    IF where # "MIP" THEN Returned(cb)
    ELSE IF sol_count = 0 THEN Returned(cb)
    ELSE IF best_obj = Infinity \/ best_obj = 0 - Infinity THEN Returned(cb)
    ELSE
    LET current_gap == Gap(best_obj, best_bound)
        recorded == [last_gap_change_time |-> current_time, last_gap |-> current_gap]
    IN  IF cb.last_gap_change_time = 0 - Infinity THEN Returned(recorded)
        ELSE [cbdata |-> IF gap_changed(cb.last_gap, current_gap) THEN recorded ELSE cb,
              terminate |-> current_time - cb.last_gap_change_time > time_from_best]

\* callback, lines 14-52
callback(cb, where, sol_count, best_obj, best_bound, current_time) ==
    IF where # "MIP" THEN Returned(cb)
    ELSE IF sol_count = 0 THEN Returned(cb)
    ELSE IF best_obj = Infinity \/ best_obj = 0 - Infinity THEN Returned(cb)
    ELSE
    LET current_gap == Gap(best_obj, best_bound)
        recorded == [last_gap_change_time |-> current_time, last_gap |-> current_gap]
    IN  IF cb.last_gap_change_time = 0 - Infinity THEN Returned(recorded)
        ELSE
        LET after == IF gap_changed(cb.last_gap, current_gap) THEN recorded ELSE cb
        IN  [cbdata |-> after,
             terminate |-> current_time - after.last_gap_change_time > time_from_best]

(***************************************************************************)
(* Specification of a solve with the callback installed: the solver calls  *)
(* it at any time, from any place, with any incumbent and bound, until     *)
(* model.optimize returns.                                                 *)
(***************************************************************************)
TimeSteps == {0, 25, 26}
Wheres == {"MIP", "MIPSOL"}
ObjectiveValues == {9999, 10000}
BoundValues == {10000, 10001}

\* the gaps differ by more than epsilon, stated on the fractions
DiffersByMoreThanEpsilon(g, h) ==
    LET d == g.num * h.den - h.num * g.den
    IN  \/ d * EpsilonInverse > g.den * h.den
        \/ (0 - d) * EpsilonInverse > g.den * h.den

InitCallback ==
    /\ pc = "optimizing"
    /\ photos = <<>>
    /\ slides = <<>>
    /\ verdict = Valid
    /\ total = 0
    /\ OptimizerIdle
    /\ LoaderIdle
    /\ CallbackIdle

Callback ==
    /\ pc = "optimizing"
    /\ \E dt \in TimeSteps, where \in Wheres, sol_count \in call.sol_count..1,
          best_obj \in ObjectiveValues \cup {0 - Infinity}, best_bound \in BoundValues :
        /\ now + dt <= MaxClock
        /\ sol_count = 0 <=> best_obj = 0 - Infinity
        /\ LET current_time == now + dt
               r == callback(cbdata, where, sol_count, best_obj, best_bound, current_time)
               sees == where = "MIP" /\ sol_count > 0
               first == sees /\ ~call.seen
               significant == /\ sees
                              /\ call.seen
                              /\ DiffersByMoreThanEpsilon(cbdata.last_gap,
                                                          Gap(best_obj, best_bound))
           IN  /\ cbdata' = r.cbdata
               /\ now' = current_time
               /\ call' = [where |-> where, sol_count |-> sol_count,
                           gap |-> IF sol_count > 0 THEN Gap(best_obj, best_bound)
                                   ELSE NoCall.gap,
                           time |-> current_time, terminated |-> r.terminate,
                           first |-> first, significant |-> significant,
                           seen |-> call.seen \/ first,
                           reset_seen |-> call.reset_seen \/ significant]
               /\ window_start' = IF first \/ significant THEN current_time
                                  ELSE window_start
    /\ UNCHANGED <<pc, photos, checkerVars, optimizerVars, loaderVars>>

\* model.optimize(callback_func) returns
OptimizeReturns ==
    /\ pc = "optimizing"
    /\ pc' = "solved"
    /\ UNCHANGED <<photos, checkerVars, optimizerVars, loaderVars, callbackVars>>

NextCallback == Callback \/ OptimizeReturns

SpecCallback == InitCallback /\ [][NextCallback]_vars

(***************************************************************************)
(* The sequences the checker is given: slides of 0..PairSize+1 ids, the    *)
(* whole sequence within a budget of MaxIds ids (an empty slide costs 1).  *)
(***************************************************************************)
SlidesOver(ids) == UNION { [1..n -> ids] : n \in 0..(PairSize + 1) }

Cost(slide) == IF Len(slide) = 0 THEN 1 ELSE Len(slide)

RECURSIVE SlideSeqs(_, _)
SlideSeqs(ids, budget) ==
    {<<>>} \cup
    UNION { { <<s>> \o rest : rest \in SlideSeqs(ids, budget - Cost(s)) } :
            s \in { t \in SlidesOver(ids) : Cost(t) <= budget } }

(***************************************************************************)
(* Specification of is_valid_solution: any catalog (the tags play no part  *)
(* in validity), any sequence over its ids and one id it does not hold.    *)
(***************************************************************************)
InitValid ==
    /\ pc = "start"
    /\ \E n \in 0..MaxPhotos : photos \in CatalogsOfLen(n, BOOLEAN, {{}})
    /\ slides \in SlideSeqs(0..Len(photos), MaxIds)
    /\ verdict = Valid
    /\ total = 0
    /\ OptimizerIdle
    /\ LoaderIdle
    /\ CallbackIdle

IsValidSolution ==
    /\ pc = "start"
    /\ verdict' = is_valid_solution(photos, slides)
    /\ pc' = "checked"
    /\ UNCHANGED <<photos, slides, total, optimizerVars, loaderVars, callbackVars>>

NextValid == IsValidSolution

SpecValid == InitValid /\ [][NextValid]_vars

(***************************************************************************)
(* Specification of compute_score: any catalog of tagged photos, any       *)
(* sequence over its ids (a valid one or not).                             *)
(***************************************************************************)
InitScore ==
    /\ pc = "start"
    /\ \E n \in 0..MaxPhotos : photos \in CatalogsOfLen(n, {TRUE}, TagPool)
    /\ slides \in SlideSeqs(0..(Len(photos) - 1), MaxIds)
    /\ verdict = Valid
    /\ total = 0
    /\ OptimizerIdle
    /\ LoaderIdle
    /\ CallbackIdle

ComputeScore ==
    /\ pc = "start"
    /\ total' = compute_score(photos, slides)
    /\ pc' = "scored"
    /\ UNCHANGED <<photos, slides, verdict, optimizerVars, loaderVars, callbackVars>>

NextScore == ComputeScore

SpecScore == InitScore /\ [][NextScore]_vars

(***************************************************************************)
(* The feasibility invariant of a sequence, stated on the data model.      *)
(***************************************************************************)
Positions(sl) ==
    UNION { { <<i, k>> : k \in 1..Len(sl[i]) } : i \in 1..Len(sl) }

IdAt(sl, p) == sl[p[1]][p[2]]

Feasible(self, sl) ==
    /\ \A i \in 1..Len(sl) : Len(sl[i]) \in {1, 2}
    /\ \A p \in Positions(sl) : IdAt(sl, p) \in KnownIds(self)
    /\ \A p, q \in Positions(sl) : p # q => IdAt(sl, p) # IdAt(sl, q)
    /\ \A i \in 1..Len(sl) :
          Len(sl[i]) = 1 => PhotoOf(self, sl[i][1]).is_horizontal
    /\ \A i \in 1..Len(sl) :
          Len(sl[i]) = 2 => /\ ~PhotoOf(self, sl[i][1]).is_horizontal
                            /\ ~PhotoOf(self, sl[i][2]).is_horizontal

\* C3: is_valid_solution accepts a sequence if and only if the sequence
\* satisfies the feasibility invariant (1 or 2 known ids per slide, no id
\* twice, single slides Wide, pair slides two Narrow).
C3_AcceptsIffFeasible ==
    pc = "checked" => (verdict.ok <=> Feasible(photos, slides))

\* C3 witness: an accepted sequence holding a Wide single and a Narrow pair.
C3_Witness ==
    /\ pc = "checked"
    /\ verdict.ok
    /\ \E i, j \in 1..Len(slides) : Len(slides[i]) = 1 /\ Len(slides[j]) = 2

(***************************************************************************)
(* C4.  What the code reports: the first offending slide in sequence       *)
(* order, and in that slide the first failing check.                       *)
(***************************************************************************)
FirstOffending(self, sl) ==
    CHOOSE k \in 1..Len(sl) :
        /\ ~Feasible(self, SubSeq(sl, 1, k))
        /\ \A j \in 1..(k - 1) : Feasible(self, SubSeq(sl, 1, j))

ReportOfFirstOffending(self, sl) ==
    LET k == FirstOffending(self, sl)
        slide == sl[k]
        earlier == { IdAt(sl, p) : p \in Positions(SubSeq(sl, 1, k - 1)) }
        Reused(m) == slide[m] \in earlier \cup { slide[n] : n \in 1..(m - 1) }
        Unknown(m) == slide[m] \notin KnownIds(self)
        bad == { m \in 1..Len(slide) : Reused(m) \/ Unknown(m) }
    IN  IF Len(slide) \notin {1, 2}
        THEN Verdict(FALSE, "Slide a un nombre invalide de photos.", k - 1, Len(slide))
        ELSE IF bad # {}
        THEN LET m == CHOOSE m \in bad : \A n \in bad : m <= n
             IN  IF Reused(m)
                 THEN Verdict(FALSE, "Photo est utilisee plusieurs fois.", NoIndex, slide[m])
                 ELSE Verdict(FALSE, "ID de photo invalide.", NoIndex, slide[m])
        ELSE IF Len(slide) = 1
        THEN Verdict(FALSE, "Slide contient une seule photo verticale.", k - 1, NoIndex)
        ELSE Verdict(FALSE, "Slide contient une photo horizontale dans une paire verticale.",
                     k - 1, NoIndex)

\* C4 (amended): the reported violation is that of the first offending slide
\* in sequence order and, within that slide, the first failing check in the
\* order size, reused or unknown id (member by member), single Narrow, pair
\* with a Wide; the size and orientation messages name the slide index, the
\* reused-id and unknown-id messages name the photo id and no slide.
C4_ReportsFirstOffendingSlide ==
    (pc = "checked" /\ ~verdict.ok) => verdict = ReportOfFirstOffending(photos, slides)

\* C4 witness: a single Narrow slide is reported although a later slide has
\* an invalid size.
C4_Witness ==
    /\ pc = "checked"
    /\ verdict.reason = "Slide contient une seule photo verticale."
    /\ \E i \in 1..Len(slides) : Len(slides[i]) \notin {1, 2}

\* The rules in the order the claim states, each taken over the whole sequence.
BadSizeSlides(sl) == { i \in 1..Len(sl) : Len(sl[i]) \notin {1, 2} }

ReuseSlides(sl) ==
    { p[1] : p \in { p \in Positions(sl) :
                       \E q \in Positions(sl) :
                           /\ IdAt(sl, q) = IdAt(sl, p)
                           /\ q[1] < p[1] \/ (q[1] = p[1] /\ q[2] < p[2]) } }

SingleNarrowSlides(self, sl) ==
    { i \in 1..Len(sl) : Len(sl[i]) = 1 /\ ~PhotoOf(self, sl[i][1]).is_horizontal }

PairWideSlides(self, sl) ==
    { i \in 1..Len(sl) :
        /\ Len(sl[i]) = 2
        /\ PhotoOf(self, sl[i][1]).is_horizontal \/ PhotoOf(self, sl[i][2]).is_horizontal }

MinOf(S) == CHOOSE m \in S : \A n \in S : m <= n

ReportInStatedOrder(self, sl) ==
    IF BadSizeSlides(sl) # {}
    THEN [reason |-> "Slide a un nombre invalide de photos.",
          slide |-> MinOf(BadSizeSlides(sl)) - 1]
    ELSE IF ReuseSlides(sl) # {}
    THEN [reason |-> "Photo est utilisee plusieurs fois.",
          slide |-> MinOf(ReuseSlides(sl)) - 1]
    ELSE IF SingleNarrowSlides(self, sl) # {}
    THEN [reason |-> "Slide contient une seule photo verticale.",
          slide |-> MinOf(SingleNarrowSlides(self, sl)) - 1]
    ELSE [reason |-> "Slide contient une photo horizontale dans une paire verticale.",
          slide |-> MinOf(PairWideSlides(self, sl)) - 1]

\* C4 as stated: over sequences of known ids, the reported violation is the
\* first in the order size anywhere, reused id anywhere, single Narrow
\* anywhere, pair with a Wide anywhere, and it names the offending slide.
C4_AsStated ==
    (/\ pc = "checked"
     /\ ~verdict.ok
     /\ \A p \in Positions(slides) : IdAt(slides, p) \in KnownIds(photos))
    => LET r == ReportInStatedOrder(photos, slides)
       IN  verdict.reason = r.reason /\ verdict.slide = r.slide

(***************************************************************************)
(* C5.  The total score, stated on the data model.                         *)
(***************************************************************************)
CombinedTags(self, slide) ==
    { t \in UNION { self[k].tags : k \in 1..Len(self) } :
        \E m \in 1..Len(slide) : t \in PhotoOf(self, slide[m]).tags }

TransitionOf(A, B) ==
    MinOf({ Cardinality(A \cap B), Cardinality(A \ B), Cardinality(B \ A) })

RECURSIVE SumUpTo(_, _)
SumUpTo(f, n) == IF n = 0 THEN 0 ELSE f[n] + SumUpTo(f, n - 1)

AdjacentSum(self, sl) ==
    LET n == IF Len(sl) = 0 THEN 0 ELSE Len(sl) - 1
        f == [i \in 1..n |->
                TransitionOf(CombinedTags(self, sl[i]), CombinedTags(self, sl[i + 1]))]
    IN  SumUpTo(f, n)

\* C5: compute_score returns the sum, over the adjacent slide pairs, of
\* min(|common|, |only in first|, |only in second|) of their combined tag
\* sets, and 0 for a sequence of 0 or 1 slides.
C5_ScoreIsAdjacentSum ==
    pc = "scored" => /\ total = AdjacentSum(photos, slides)
                     /\ Len(slides) <= 1 => total = 0

\* C5 witness: a single slide followed by a pair slide of two photos with
\* different tags, the transition scoring 1.
C5_Witness ==
    /\ pc = "scored"
    /\ Len(slides) = 2
    /\ Len(slides[1]) = 1
    /\ Len(slides[2]) = 2
    /\ PhotoOf(photos, slides[2][1]).tags # PhotoOf(photos, slides[2][2]).tags
    /\ total = 1

(***************************************************************************)
(* C7.  The slide units of a catalog, stated on the data model: the Wide   *)
(* items and the unordered pairs of distinct Narrow items.                 *)
(***************************************************************************)
SlideUnits(ps) ==
    { <<ps[k].id>> : k \in { n \in 1..Len(ps) : ps[n].is_horizontal } }
    \cup { <<ps[km[1]].id, ps[km[2]].id>> :
            km \in { c \in (1..Len(ps)) \X (1..Len(ps)) :
                        /\ c[1] < c[2]
                        /\ ~ps[c[1]].is_horizontal
                        /\ ~ps[c[2]].is_horizontal } }

UnitTags(ps, u) == UNION { PhotoOf(ps, u[k]).tags : k \in 1..Len(u) }

\* C7: the transition score of both files is symmetric, and the optimizer's
\* table has an entry for every ordered pair of distinct slide units, equal
\* under (u, v) and (v, u).
C7_ScoreAndTableSymmetric ==
    pc = "constructed" =>
        \A u, v \in SlideUnits(photos) :
            LET A == UnitTags(photos, u)
                B == UnitTags(photos, v)
            IN  /\ get_transition_score(A, B) = get_transition_score(B, A)
                /\ compute_transition_score(A, B) = compute_transition_score(B, A)
                /\ u # v =>
                    /\ <<u, v>> \in DOMAIN optimizer.transition_scores
                    /\ <<v, u>> \in DOMAIN optimizer.transition_scores
                    /\ optimizer.transition_scores[<<u, v>>]
                         = optimizer.transition_scores[<<v, u>>]

\* C7 witness: a table holding a positive score between a Wide item and a
\* Narrow pair, under both orders.
C7_Witness ==
    /\ pc = "constructed"
    /\ \E u, v \in SlideUnits(photos) :
        /\ Len(u) = 1 /\ Len(v) = 2
        /\ optimizer.transition_scores[<<u, v>>] > 0
        /\ optimizer.transition_scores[<<v, u>>] > 0

(***************************************************************************)
(* C1, C2, C8, C9: slideshow.main and PhotoSlideshowOptimizer.optimize.    *)
(***************************************************************************)
\* C1: whatever the solver's outcome and the time budget, optimize returns
\* a complete sequence that is_valid_solution accepts; never None, never
\* nothing.  Stated for the catalogs that yield at least one slide unit.
C1_AlwaysReturnsValidSequence ==
    (pc = "optimized" /\ SlideUnits(photos) # {}) =>
        /\ result.outcome = "sequence"
        /\ is_valid_solution(photos, result.solution).ok

\* C2: the score optimize returns with a sequence is that sequence's total
\* score as compute_score recomputes it.
C2_ReturnedScoreIsSequenceScore ==
    (pc = "optimized" /\ result.outcome = "sequence") =>
        result.score = compute_score(photos, result.solution)

\* C8: the sequence the optimizer returned, written by main and read back by
\* read_solution_file, is the same list of slides; the empty one included.
C8_RoundTrip ==
    (pc \in {"verified", "read_failed"} /\ result.outcome = "sequence") =>
        /\ pc = "verified"
        /\ slides = result.solution

\* C9: with no slide unit in the catalog, a solved run ends with the empty
\* sequence and score 0, written and reported as a found solution.
C9_EmptyCatalogIsSuccess ==
    (/\ pc = "main_done"
     /\ SlideUnits(photos) = {}
     /\ solver.status = "OPTIMAL")
    => /\ result.outcome = "sequence"
       /\ result.solution = <<>>
       /\ result.score = 0
       /\ file = write_solution(<<>>)
       /\ printed = [message |-> "Solution trouvee avec un score de :", score |-> 0]

(***************************************************************************)
(* C6.  A malformed catalog file, stated on its text.                      *)
(***************************************************************************)
Malformed(lines) ==
    LET declared == int_of_line(readline(lines, 1))
    IN  \/ ~declared.ok
        \/ declared.value # Len(lines) - 1
        \/ \E k \in 2..Len(lines) :
              LET tokens == split(lines[k])
              IN  \/ Len(tokens) < 2
                  \/ tokens[1] \notin {<<"H">>, <<"V">>}
                  \/ ~int(tokens[2]).ok
                  \/ int(tokens[2]).value # Len(tokens) - 2

\* C6: both loaders fail on a malformed catalog file (declared count not the
\* number of records, orientation neither H nor V, tag tokens not as many as
\* declared), and they never build different photos from the same file.
C6_MalformedRejectedByBoth ==
    (loaded.optimizer.outcome # "pending" /\ loaded.checker.outcome # "pending") =>
        /\ Malformed(text) =>
              loaded.optimizer.outcome # "ok" /\ loaded.checker.outcome # "ok"
        /\ (loaded.optimizer.outcome = "ok" /\ loaded.checker.outcome = "ok") =>
              loaded.optimizer.photos = loaded.checker.photos

(***************************************************************************)
(* C10.  The termination callback.                                         *)
(***************************************************************************)
\* C10: terminate is requested only in a MIP callback that sees a solution,
\* more than time_from_best seconds after the last invocation that recorded
\* a gap; the first invocation that sees a solution only records time and
\* gap; an invocation at which the gap differs by more than epsilon from the
\* recorded one records time and gap and requests no termination.
C10_TerminatesOnlyAfterQuietWindow ==
    /\ call.terminated =>
          /\ call.where = "MIP"
          /\ call.sol_count > 0
          /\ call.time - window_start > time_from_best
          /\ ~call.first
          /\ ~call.significant
    /\ (call.first \/ call.significant) =>
          /\ ~call.terminated
          /\ cbdata = [last_gap_change_time |-> call.time, last_gap |-> call.gap]

\* C10 witness: termination requested, after an earlier invocation at which
\* the gap changed by more than epsilon and reset the window.
C10_Witness ==
    /\ call.terminated
    /\ call.reset_seen
    /\ call.time - window_start = time_from_best + 1

====
